---- MODULE Spec2Model ----
(***************************************************************************)
(* Model of the language-interop analyzers: the ReScript and Rust type     *)
(* analyzers (extraction, compatibility score, field-type mapping) and the *)
(* report module (transport class, compatibility report, mapping table).   *)
(*                                                                         *)
(* Conventions.  A Rust String that the code inspects character by         *)
(* character (source text, type names) is a sequence of one-character      *)
(* strings; a String the code only builds by formatting is a TLA+ string.  *)
(* An f32 score is an integer number of thousandths (1.0 is ONE).          *)
(***************************************************************************)
EXTENDS Integers, Sequences, FiniteSets, TLC

VARIABLES rescript, rust, last

vars == <<rescript, rust, last>>

(***************************************************************************)
(* Bounds of the model.                                                    *)
(***************************************************************************)
\* Nesting depth of the field types handed to map_to_target.
MaxDepth == 1
\* Number of fields of a type definition built directly by a caller.
MaxFields == 2
\* Number of text pieces a source text is assembled from.
MaxPieces == 3

\* The f32 value 1.0, in thousandths.
ONE == 1000

(***************************************************************************)
(* Characters and strings.                                                 *)
(***************************************************************************)
UpperCase == <<"A","B","C","D","E","F","G","H","I","J","K","L","M",
               "N","O","P","Q","R","S","T","U","V","W","X","Y","Z">>
LowerCase == <<"a","b","c","d","e","f","g","h","i","j","k","l","m",
               "n","o","p","q","r","s","t","u","v","w","x","y","z">>

\* char::to_lowercase on one (ASCII) character.
to_lowercase_char(c) ==
    IF \E i \in 1..26 : UpperCase[i] = c
    THEN LowerCase[CHOOSE i \in 1..26 : UpperCase[i] = c]
    ELSE c

\* str::to_lowercase on a character sequence.
to_lowercase(s) == [i \in 1..Len(s) |-> to_lowercase_char(s[i])]

\* The TLA+ string holding the characters of s.
RECURSIVE Str(_)
Str(s) == IF s = <<>> THEN "" ELSE Head(s) \o Str(Tail(s))

\* str::contains: pat occurs in s as a contiguous run of characters.
contains(s, pat) ==
    \E i \in 0..(Len(s) - Len(pat)) :
        \A j \in 1..Len(pat) : s[i + j] = pat[j]

(***************************************************************************)
(* The type model of the two analyzers.                                    *)
(***************************************************************************)
NameUser == <<"U","s","e","r">>
NamePt == <<"P","t">>
TypeNames == {NameUser, NamePt}

ReScriptScalars == {"Int", "String", "Bool", "Float"}
RustScalars == {"I64", "I32", "U64", "U32", "String", "Bool", "F64", "F32"}
Visibility == {"Public", "Private", "Crate"}

\* enum ReScriptFieldType, to nesting depth n.
RECURSIVE ReScriptFieldType(_)
ReScriptFieldType(n) ==
    IF n = 0
    THEN {[k |-> s] : s \in ReScriptScalars}
         \cup {[k |-> "Record", name |-> nm] : nm \in TypeNames}
    ELSE LET S == ReScriptFieldType(n - 1)
         IN  S \cup {[k |-> "Array", inner |-> t] : t \in S}
               \cup {[k |-> "Option", inner |-> t] : t \in S}

\* enum RustFieldType, to nesting depth n.
RECURSIVE RustFieldType(_)
RustFieldType(n) ==
    IF n = 0
    THEN {[k |-> s] : s \in RustScalars}
         \cup {[k |-> "Struct", name |-> nm] : nm \in TypeNames}
    ELSE LET S == RustFieldType(n - 1)
         IN  S \cup {[k |-> "Vec", inner |-> t] : t \in S}
               \cup {[k |-> "Option", inner |-> t] : t \in S}
               \cup {[k |-> "Result", ok |-> t, err |-> u] : t \in S, u \in S}

\* The ecosystem tags a caller passes: the four the code names and one it
\* does not.
Tags == {"rescript", "rust", "julia", "gleam", "python"}

(***************************************************************************)
(* rescript_analyzer::map_to_target: the match on the target, and one      *)
(* operator per arm of it.  The arms recurse through map_to_target.        *)
(***************************************************************************)
RECURSIVE rescript_map_to_target(_, _)

\* The arm "rust".
rescript_map_to_rust(field_type, target) ==
    CASE field_type.k = "Int" -> "i64"
      [] field_type.k = "String" -> "String"
      [] field_type.k = "Bool" -> "bool"
      [] field_type.k = "Float" -> "f64"
      [] field_type.k = "Record" -> Str(field_type.name)
      [] field_type.k = "Array" ->
           "Vec<" \o rescript_map_to_target(field_type.inner, target) \o ">"
      [] field_type.k = "Option" ->
           "Option<" \o rescript_map_to_target(field_type.inner, target) \o ">"

\* The arm "julia".
rescript_map_to_julia(field_type, target) ==
    CASE field_type.k = "Int" -> "Int64"
      [] field_type.k = "String" -> "String"
      [] field_type.k = "Bool" -> "Bool"
      [] field_type.k = "Float" -> "Float64"
      [] field_type.k = "Record" -> Str(field_type.name)
      [] field_type.k = "Array" ->
           "Vector{" \o rescript_map_to_target(field_type.inner, target) \o "}"
      [] field_type.k = "Option" ->
           "Union{Nothing, " \o rescript_map_to_target(field_type.inner, target) \o "}"

\* The arm "gleam".
rescript_map_to_gleam(field_type, target) ==
    CASE field_type.k = "Int" -> "Int"
      [] field_type.k = "String" -> "String"
      [] field_type.k = "Bool" -> "Bool"
      [] field_type.k = "Float" -> "Float"
      [] field_type.k = "Record" -> Str(field_type.name)
      [] field_type.k = "Array" ->
           "List(" \o rescript_map_to_target(field_type.inner, target) \o ")"
      [] field_type.k = "Option" ->
           "Option(" \o rescript_map_to_target(field_type.inner, target) \o ")"

rescript_map_to_target(field_type, target) ==
    CASE target = "rust" -> rescript_map_to_rust(field_type, target)
      [] target = "julia" -> rescript_map_to_julia(field_type, target)
      [] target = "gleam" -> rescript_map_to_gleam(field_type, target)
      [] OTHER -> "Unknown"

(***************************************************************************)
(* rust_analyzer::map_to_target, likewise.                                 *)
(***************************************************************************)
RECURSIVE rust_map_to_target(_, _)

\* The arm "rescript".
rust_map_to_rescript(field_type, target) ==
    CASE field_type.k \in {"I64", "I32", "U64", "U32"} -> "int"
      [] field_type.k = "String" -> "string"
      [] field_type.k = "Bool" -> "bool"
      [] field_type.k \in {"F64", "F32"} -> "float"
      [] field_type.k = "Struct" -> Str(to_lowercase(field_type.name))
      [] field_type.k = "Vec" ->
           "array<" \o rust_map_to_target(field_type.inner, target) \o ">"
      [] field_type.k = "Option" ->
           "option<" \o rust_map_to_target(field_type.inner, target) \o ">"
      [] field_type.k = "Result" ->
           "result<" \o rust_map_to_target(field_type.ok, target) \o ", "
               \o rust_map_to_target(field_type.err, target) \o ">"

\* The arm "julia".
rust_map_to_julia(field_type, target) ==
    CASE field_type.k = "I64" -> "Int64"
      [] field_type.k = "I32" -> "Int32"
      [] field_type.k = "U64" -> "UInt64"
      [] field_type.k = "U32" -> "UInt32"
      [] field_type.k = "String" -> "String"
      [] field_type.k = "Bool" -> "Bool"
      [] field_type.k = "F64" -> "Float64"
      [] field_type.k = "F32" -> "Float32"
      [] field_type.k = "Struct" -> Str(field_type.name)
      [] field_type.k = "Vec" ->
           "Vector{" \o rust_map_to_target(field_type.inner, target) \o "}"
      [] field_type.k = "Option" ->
           "Union{Nothing, " \o rust_map_to_target(field_type.inner, target) \o "}"
      [] field_type.k = "Result" ->
           "Union{Ok{" \o rust_map_to_target(field_type.ok, target) \o "}, Err{"
               \o rust_map_to_target(field_type.err, target) \o "}}"

\* The arm "gleam".
rust_map_to_gleam(field_type, target) ==
    CASE field_type.k \in {"I64", "I32", "U64", "U32"} -> "Int"
      [] field_type.k = "String" -> "String"
      [] field_type.k = "Bool" -> "Bool"
      [] field_type.k \in {"F64", "F32"} -> "Float"
      [] field_type.k = "Struct" -> Str(field_type.name)
      [] field_type.k = "Vec" ->
           "List(" \o rust_map_to_target(field_type.inner, target) \o ")"
      [] field_type.k = "Option" ->
           "Option(" \o rust_map_to_target(field_type.inner, target) \o ")"
      [] field_type.k = "Result" ->
           "Result(" \o rust_map_to_target(field_type.ok, target) \o ", "
               \o rust_map_to_target(field_type.err, target) \o ")"

\* A copy-and-paste slip in the match: the "julia" arm renders as "gleam".
rust_map_to_target_julia_as_gleam(field_type, target) ==
    CASE target = "rescript" -> rust_map_to_rescript(field_type, target)
      [] target = "julia" -> rust_map_to_gleam(field_type, target)
      [] target = "gleam" -> rust_map_to_gleam(field_type, target)
      [] OTHER -> "Unknown"

rust_map_to_target(field_type, target) ==
    CASE target = "rescript" -> rust_map_to_rescript(field_type, target)
      [] target = "julia" -> rust_map_to_julia(field_type, target)
      [] target = "gleam" -> rust_map_to_gleam(field_type, target)
      [] OTHER -> "Unknown"

(***************************************************************************)
(* Debug formatting of the field-type enums (#[derive(Debug)]), as the     *)
(* characters format!("{:?}", ..) produces.                                *)
(***************************************************************************)
\* The characters of a variant's name.
VariantName(k) ==
    CASE k = "Int" -> <<"I","n","t">>
      [] k = "String" -> <<"S","t","r","i","n","g">>
      [] k = "Bool" -> <<"B","o","o","l">>
      [] k = "Float" -> <<"F","l","o","a","t">>
      [] k = "Record" -> <<"R","e","c","o","r","d">>
      [] k = "Array" -> <<"A","r","r","a","y">>
      [] k = "Option" -> <<"O","p","t","i","o","n">>
      [] k = "I64" -> <<"I","6","4">>
      [] k = "I32" -> <<"I","3","2">>
      [] k = "U64" -> <<"U","6","4">>
      [] k = "U32" -> <<"U","3","2">>
      [] k = "F64" -> <<"F","6","4">>
      [] k = "F32" -> <<"F","3","2">>
      [] k = "Struct" -> <<"S","t","r","u","c","t">>
      [] k = "Vec" -> <<"V","e","c">>
      [] k = "Result" -> <<"R","e","s","u","l","t">>

\* <String as Debug>::fmt on a name without characters that need escaping.
debug_string(name) == <<"\"">> \o name \o <<"\"">>

RECURSIVE rescript_field_type_debug(_)
rescript_field_type_debug(field_type) ==
    CASE field_type.k \in ReScriptScalars -> VariantName(field_type.k)
      [] field_type.k = "Record" ->
           VariantName("Record") \o <<"(">> \o debug_string(field_type.name) \o <<")">>
      [] field_type.k \in {"Array", "Option"} ->
           VariantName(field_type.k) \o <<"(">>
               \o rescript_field_type_debug(field_type.inner) \o <<")">>

RECURSIVE rust_field_type_debug(_)
rust_field_type_debug(field_type) ==
    CASE field_type.k \in RustScalars -> VariantName(field_type.k)
      [] field_type.k = "Struct" ->
           VariantName("Struct") \o <<"(">> \o debug_string(field_type.name) \o <<")">>
      [] field_type.k \in {"Vec", "Option"} ->
           VariantName(field_type.k) \o <<"(">>
               \o rust_field_type_debug(field_type.inner) \o <<")">>
      [] field_type.k = "Result" ->
           VariantName("Result") \o <<"(">> \o rust_field_type_debug(field_type.ok)
               \o <<",", " ">> \o rust_field_type_debug(field_type.err) \o <<")">>

(***************************************************************************)
(* Extraction: analyze_rescript_type and analyze_rust_type.                *)
(***************************************************************************)
\* The text analyze_rescript_type looks for.
PatternTypeUser ==
    <<"t","y","p","e"," ","u","s","e","r">>
\* The text analyze_rust_type looks for.
PatternPubStructUser ==
    <<"p","u","b"," ","s","t","r","u","c","t"," ","U","s","e","r">>

\* The ReScriptType analyze_rescript_type builds.
UserReScriptType ==
    [name |-> "user",
     fields |-> << [name |-> "id", field_type |-> [k |-> "Int"], optional |-> FALSE],
                   [name |-> "name", field_type |-> [k |-> "String"], optional |-> FALSE],
                   [name |-> "email", field_type |-> [k |-> "String"], optional |-> FALSE],
                   [name |-> "active", field_type |-> [k |-> "Bool"], optional |-> FALSE] >>,
     location |-> "examples/User.res"]

\* The RustType analyze_rust_type builds.
UserRustType ==
    [name |-> "User",
     fields |-> << [name |-> "id", field_type |-> [k |-> "I64"], visibility |-> "Public"],
                   [name |-> "name", field_type |-> [k |-> "String"], visibility |-> "Public"],
                   [name |-> "email", field_type |-> [k |-> "String"], visibility |-> "Public"],
                   [name |-> "active", field_type |-> [k |-> "Bool"], visibility |-> "Public"] >>,
     attributes |-> <<"#[repr(C)]", "#[derive(Debug, Clone, PartialEq)]">>,
     location |-> "examples/user.rs"]

\* Result<ReScriptType, String>.
analyze_rescript_type(source) ==
    IF contains(source, PatternTypeUser)
    THEN [kind |-> "Ok", val |-> UserReScriptType]
    ELSE [kind |-> "Err", val |-> "Type definition not found"]

\* Result<RustType, String>.
analyze_rust_type(source) ==
    IF contains(source, PatternPubStructUser)
    THEN [kind |-> "Ok", val |-> UserRustType]
    ELSE [kind |-> "Err", val |-> "Type definition not found"]

(***************************************************************************)
(* Compatibility scores, in thousandths.                                   *)
(***************************************************************************)
\* A slip of scale: the "rust" arm returns the percentage, 100.0.
rescript_compatibility_score_percent(rescript_type, target) ==
    CASE target = "rust" -> 100 * ONE
      [] target = "julia" -> ONE
      [] target = "gleam" -> ONE
      [] OTHER -> 0

rescript_compatibility_score(rescript_type, target) ==
    CASE target = "rust" -> ONE
      [] target = "julia" -> ONE
      [] target = "gleam" -> ONE
      [] OTHER -> 0

\* A plausible omission: the "gleam" arm is missing and falls to the default.
rust_compatibility_score_no_gleam(rust_type, target) ==
    CASE target = "rescript" -> ONE
      [] target = "julia" -> ONE
      [] OTHER -> 0

rust_compatibility_score(rust_type, target) ==
    CASE target = "rescript" -> ONE
      [] target = "julia" -> ONE
      [] target = "gleam" -> ONE
      [] OTHER -> 0

(***************************************************************************)
(* The report module: transport class, report, mapping table.              *)
(***************************************************************************)
TransportClass == {"Concorde", "BusinessClass", "Economy", "Wheelbarrow"}

\* A plausible extra arm: a language paired with itself is Concorde.
calculate_transport_class_same_is_concorde(source, target) ==
    CASE source = target -> "Concorde"
      [] <<source, target>> \in {<<"rescript", "rust">>, <<"rust", "rescript">>} -> "Concorde"
      [] <<source, target>> \in {<<"rescript", "julia">>, <<"julia", "rescript">>} -> "Concorde"
      [] <<source, target>> \in {<<"rust", "julia">>, <<"julia", "rust">>} -> "Concorde"
      [] <<source, target>> \in {<<"rescript", "gleam">>, <<"gleam", "rescript">>} -> "Concorde"
      [] <<source, target>> \in {<<"rust", "gleam">>, <<"gleam", "rust">>} -> "Concorde"
      [] OTHER -> "Wheelbarrow"

\* A plausible omission: the reversed patterns of the julia and gleam arms.
calculate_transport_class_one_way(source, target) ==
    CASE <<source, target>> \in {<<"rescript", "rust">>, <<"rust", "rescript">>} -> "Concorde"
      [] <<source, target>> \in {<<"rescript", "julia">>} -> "Concorde"
      [] <<source, target>> \in {<<"rust", "julia">>} -> "Concorde"
      [] <<source, target>> \in {<<"rescript", "gleam">>} -> "Concorde"
      [] <<source, target>> \in {<<"rust", "gleam">>} -> "Concorde"
      [] OTHER -> "Wheelbarrow"

calculate_transport_class(source, target) ==
    CASE <<source, target>> \in {<<"rescript", "rust">>, <<"rust", "rescript">>} -> "Concorde"
      [] <<source, target>> \in {<<"rescript", "julia">>, <<"julia", "rescript">>} -> "Concorde"
      [] <<source, target>> \in {<<"rust", "julia">>, <<"julia", "rust">>} -> "Concorde"
      [] <<source, target>> \in {<<"rescript", "gleam">>, <<"gleam", "rescript">>} -> "Concorde"
      [] <<source, target>> \in {<<"rust", "gleam">>, <<"gleam", "rust">>} -> "Concorde"
      [] OTHER -> "Wheelbarrow"

\* An off-by-one: the last pair is dropped.
zip_len_short(xs, ys) ==
    IF Len(xs) = 0 \/ Len(ys) = 0 THEN 0
    ELSE (IF Len(xs) <= Len(ys) THEN Len(xs) ELSE Len(ys)) - 1

\* Iterator::zip stops at the shorter of the two field lists.
zip_len(xs, ys) == IF Len(xs) <= Len(ys) THEN Len(xs) ELSE Len(ys)

\* One entry per printed line "  {name}: {rescript type} -> {rust type}".
generate_mapping_table(rescript_type, rust_type) ==
    [i \in 1..zip_len(rescript_type.fields, rust_type.fields) |->
        [name |-> rescript_type.fields[i].name,
         rescript_type |->
             Str(to_lowercase(rescript_field_type_debug(rescript_type.fields[i].field_type))),
         rust_type |->
             Str(to_lowercase(rust_field_type_debug(rust_type.fields[i].field_type)))]]

\* A score times 100.0 as "{:.1}" prints it, in tenths of a percent.
percent_1(score) == (score * 100 * 10 + ONE \div 2) \div ONE

\* The parts of the String compatibility_report formats.
compatibility_report(rescript_type, rust_type) ==
    LET rs_score == rescript_compatibility_score(rescript_type, "rust")
        rust_score == rust_compatibility_score(rust_type, "rescript")
        transport_class == calculate_transport_class("rescript", "rust")
    IN  [rescript_to_rust |-> percent_1(rs_score),
         rust_to_rescript |-> percent_1(rust_score),
         transport_class |-> transport_class,
         type_mappings |-> generate_mapping_table(rescript_type, rust_type)]

(***************************************************************************)
(* Inputs a caller supplies.                                               *)
(***************************************************************************)
\* The ReScript source of the crate's documented example.
ExampleReScriptSource ==
    <<"\n","t","y","p","e"," ","u","s","e","r"," ","="," ","{","\n"," "," ",
      "i","d",":"," ","i","n","t",",","\n"," "," ","n","a","m","e",":"," ",
      "s","t","r","i","n","g",",","\n"," "," ","e","m","a","i","l",":"," ",
      "s","t","r","i","n","g",",","\n"," "," ","a","c","t","i","v","e",":",
      " ","b","o","o","l",",","\n","}","\n">>
\* The Rust source of the crate's documented example.
ExampleRustSource ==
    <<"\n","p","u","b"," ","s","t","r","u","c","t"," ","U","s","e","r"," ",
      "{","\n"," "," "," "," ","p","u","b"," ","i","d",":"," ","i","6","4",
      ",","\n"," "," "," "," ","p","u","b"," ","n","a","m","e",":"," ","S",
      "t","r","i","n","g",",","\n"," "," "," "," ","p","u","b"," ","e","m",
      "a","i","l",":"," ","S","t","r","i","n","g",",","\n"," "," "," "," ",
      "p","u","b"," ","a","c","t","i","v","e",":"," ","b","o","o","l",",",
      "\n","}","\n">>

\* Pieces source texts are assembled from.
PieceType ==
    <<"t","y","p","e"," ">>
PieceUser ==
    <<"u","s","e","r">>
PieceId ==
    <<"i","d">>
PieceEqRecord ==
    <<" ","="," ","{"," ","i","d",":"," ","i","n","t"," ","}">>
PiecePubStruct ==
    <<"p","u","b"," ","s","t","r","u","c","t"," ">>
PieceUserUpper ==
    <<"U","s","e","r">>
PieceIdUpper ==
    <<"I","d">>
PieceBody ==
    <<" ","{"," ","p","u","b"," ","i","d",":"," ","i","6","4"," ","}">>

ReScriptPieces == {PieceType, PieceUser, PieceId, PieceEqRecord}
RustPieces == {PiecePubStruct, PieceUserUpper, PieceIdUpper, PieceBody}

\* The texts made of at most n pieces.
RECURSIVE Texts(_, _)
Texts(pieces, n) ==
    IF n = 0 THEN {<<>>}
    ELSE LET S == Texts(pieces, n - 1)
         IN  S \cup {p \o s : p \in pieces, s \in S}

ReScriptSources == Texts(ReScriptPieces, MaxPieces) \cup {ExampleReScriptSource}
RustSources == Texts(RustPieces, MaxPieces) \cup {ExampleRustSource}

\* The sources of a reporting session: the documented example and a
\* declaration of another type.
SessionReScriptSources ==
    {ExampleReScriptSource, PieceType \o PieceId \o PieceEqRecord}
SessionRustSources ==
    {ExampleRustSource, PiecePubStruct \o PieceIdUpper \o PieceBody}

\* Fields a caller builds type definitions from.
ReScriptFieldPool ==
    { [name |-> "id", field_type |-> [k |-> "Int"], optional |-> FALSE],
      [name |-> "name", field_type |-> [k |-> "String"], optional |-> TRUE],
      [name |-> "tags", field_type |-> [k |-> "Array", inner |-> [k |-> "String"]],
       optional |-> FALSE] }

RustFieldPool ==
    { [name |-> "id", field_type |-> [k |-> "I64"], visibility |-> "Public"],
      [name |-> "secret", field_type |-> [k |-> "String"], visibility |-> "Private"],
      [name |-> "outcome",
       field_type |-> [k |-> "Result", ok |-> [k |-> "F32"],
                       err |-> [k |-> "Struct", name |-> NameUser]],
       visibility |-> "Crate"] }

\* The sequences over S of length at most n.
RECURSIVE SeqUpTo(_, _)
SeqUpTo(S, n) ==
    IF n = 0 THEN {<<>>}
    ELSE LET T == SeqUpTo(S, n - 1)
         IN  T \cup {<<x>> \o t : x \in S, t \in T}

ReScriptTypes ==
    {[name |-> "account", fields |-> fs, location |-> "mem"] :
        fs \in SeqUpTo(ReScriptFieldPool, MaxFields)}

RustTypes ==
    {[name |-> "Account", fields |-> fs, attributes |-> <<>>, location |-> "mem"] :
        fs \in SeqUpTo(RustFieldPool, MaxFields)}

(***************************************************************************)
(* State.  rescript and rust are the type definitions the caller holds     *)
(* (None until bound); last is the latest operation with its arguments and *)
(* its return value.  Return values carry their Rust type: an f32, a       *)
(* String, or the Ok/Err of a Result.                                      *)
(***************************************************************************)
None == [k |-> "None"]

Init ==
    /\ rescript = None
    /\ rust = None
    /\ last = [op |-> "none"]

\* let rescript_type = analyze_rescript_type(source): the caller keeps an Ok value.
AnalyzeReScript(source) ==
    /\ rescript = None
    /\ LET r == analyze_rescript_type(source)
       IN  /\ last' = [op |-> "analyze_rescript_type", source |-> source, result |-> r]
           /\ rescript' = IF r.kind = "Ok" THEN r.val ELSE rescript
    /\ UNCHANGED rust

\* let rust_type = analyze_rust_type(source): the caller keeps an Ok value.
AnalyzeRust(source) ==
    /\ rust = None
    /\ LET r == analyze_rust_type(source)
       IN  /\ last' = [op |-> "analyze_rust_type", source |-> source, result |-> r]
           /\ rust' = IF r.kind = "Ok" THEN r.val ELSE rust
    /\ UNCHANGED rescript

\* The caller builds a ReScriptType from its public fields.
NewReScriptType(d) ==
    /\ rescript = None
    /\ rescript' = d
    /\ last' = [op |-> "ReScriptType"]
    /\ UNCHANGED rust

\* The caller builds a RustType from its public fields.
NewRustType(d) ==
    /\ rust = None
    /\ rust' = d
    /\ last' = [op |-> "RustType"]
    /\ UNCHANGED rescript

ScoreReScript(target) ==
    /\ rescript # None
    /\ last' = [op |-> "rescript_compatibility_score", def |-> rescript,
                target |-> target,
                result |-> [kind |-> "f32",
                            val |-> rescript_compatibility_score(rescript, target)]]
    /\ UNCHANGED <<rescript, rust>>

ScoreRust(target) ==
    /\ rust # None
    /\ last' = [op |-> "rust_compatibility_score", def |-> rust,
                target |-> target,
                result |-> [kind |-> "f32",
                            val |-> rust_compatibility_score(rust, target)]]
    /\ UNCHANGED <<rescript, rust>>

TransportClassOf(source, target) ==
    /\ last' = [op |-> "calculate_transport_class", source |-> source,
                target |-> target,
                result |-> calculate_transport_class(source, target)]
    /\ UNCHANGED <<rescript, rust>>

Report ==
    /\ rescript # None
    /\ rust # None
    /\ last' = [op |-> "compatibility_report", a |-> rescript, b |-> rust,
                result |-> compatibility_report(rescript, rust)]
    /\ UNCHANGED <<rescript, rust>>

Next ==
    \/ \E source \in SessionReScriptSources : AnalyzeReScript(source)
    \/ \E source \in SessionRustSources : AnalyzeRust(source)
    \/ \E d \in ReScriptTypes : NewReScriptType(d)
    \/ \E d \in RustTypes : NewRustType(d)
    \/ \E target \in Tags : ScoreReScript(target)
    \/ \E target \in Tags : ScoreRust(target)
    \/ \E source \in Tags, target \in Tags : TransportClassOf(source, target)
    \/ Report

\* Extraction, scoring, classification and reporting on the held types.
Spec == Init /\ [][Next]_vars

NextExtract ==
    \/ \E source \in ReScriptSources : AnalyzeReScript(source)
    \/ \E source \in RustSources : AnalyzeRust(source)

\* The two extractors on every source text within MaxPieces.
SpecExtract == Init /\ [][NextExtract]_vars

(***************************************************************************)
(* The field mappers as pure functions: the initial state holds the        *)
(* arguments of one call, and the call returns.                            *)
(***************************************************************************)
InitMap ==
    /\ rescript = None
    /\ rust = None
    /\ last \in {[op |-> "call", fn |-> "rescript_map_to_target",
                  field_type |-> ft, target |-> t] :
                     ft \in ReScriptFieldType(MaxDepth), t \in Tags}
           \cup {[op |-> "call", fn |-> "rust_map_to_target",
                  field_type |-> ft, target |-> t] :
                     ft \in RustFieldType(MaxDepth), t \in Tags}

MapReScript ==
    /\ last.op = "call"
    /\ last.fn = "rescript_map_to_target"
    /\ last' = [op |-> "rescript_map_to_target", field_type |-> last.field_type,
                target |-> last.target,
                result |-> [kind |-> "String",
                            val |-> rescript_map_to_target(last.field_type, last.target)]]
    /\ UNCHANGED <<rescript, rust>>

MapRust ==
    /\ last.op = "call"
    /\ last.fn = "rust_map_to_target"
    /\ last' = [op |-> "rust_map_to_target", field_type |-> last.field_type,
                target |-> last.target,
                result |-> [kind |-> "String",
                            val |-> rust_map_to_target(last.field_type, last.target)]]
    /\ UNCHANGED <<rescript, rust>>

NextMap == MapReScript \/ MapRust

SpecMap == InitMap /\ [][NextMap]_vars

(***************************************************************************)
(* Properties.                                                             *)
(***************************************************************************)
IsScoreCall == last.op \in {"rescript_compatibility_score", "rust_compatibility_score"}
IsMapCall == last.op \in {"rescript_map_to_target", "rust_map_to_target"}

\* The targets each analyzer's match names.
SupportedTargets(op) ==
    IF op \in {"rescript_compatibility_score", "rescript_map_to_target"}
    THEN {"rust", "julia", "gleam"}
    ELSE {"rescript", "julia", "gleam"}

\* C1: every score either analyzer returns, for any type definition and any
\* target tag, supported or not, lies in [0.0, 1.0].
C1_ScoreInUnitInterval ==
    IsScoreCall => (last.result.val >= 0 /\ last.result.val <= ONE)

C1_Witness_ScoredUnsupportedTarget ==
    /\ last.op = "rescript_compatibility_score"
    /\ last.target = "python"
    /\ last.result.val = 0
    /\ Len(last.def.fields) > 0

\* The public fields of a definition: every ReScript field, and the Rust
\* fields of visibility Public.
PublicFields(op, def) ==
    IF op = "rescript_compatibility_score"
    THEN def.fields
    ELSE SelectSeq(def.fields, LAMBDA f : f.visibility = "Public")

\* The fidelity of one field in a target: 1.0 when the analyzer's mapper has
\* an equivalent for its type there, 0.0 when it has none.
FieldFidelity(op, field, target) ==
    LET rendered == IF op = "rescript_compatibility_score"
                    THEN rescript_map_to_target(field.field_type, target)
                    ELSE rust_map_to_target(field.field_type, target)
    IN  IF rendered = "Unknown" THEN 0 ELSE ONE

RECURSIVE SumFidelity(_, _, _)
SumFidelity(op, fields, target) ==
    IF fields = <<>> THEN 0
    ELSE FieldFidelity(op, Head(fields), target) + SumFidelity(op, Tail(fields), target)

MeanFidelity(op, def, target) ==
    LET pub == PublicFields(op, def)
    IN  IF pub = <<>> THEN ONE ELSE SumFidelity(op, pub, target) \div Len(pub)

\* C2: the score is the arithmetic mean of the fidelities of the public
\* fields, and 1.0 when the definition has no public field.
C2_ScoreIsMeanOfPublicFieldFidelities ==
    IsScoreCall => last.result.val = MeanFidelity(last.op, last.def, last.target)

\* The tier of the fixed thresholds, on a percentage in tenths of a percent.
Classify(percent) ==
    IF percent >= 990 THEN "Concorde"
    ELSE IF percent >= 950 THEN "BusinessClass"
    ELSE IF percent >= 800 THEN "Economy"
    ELSE "Wheelbarrow"

MinOf(x, y) == IF x <= y THEN x ELSE y

\* The directional scores (as percentages) the analyzers compute from source
\* ecosystem s to target t, over the type definitions of the model; none when
\* s has no analyzer.
DirectionalScores(s, t) ==
    CASE s = "rescript" ->
           {percent_1(rescript_compatibility_score(d, t)) :
                d \in ReScriptTypes \cup {UserReScriptType}}
      [] s = "rust" ->
           {percent_1(rust_compatibility_score(d, t)) :
                d \in RustTypes \cup {UserRustType}}
      [] OTHER -> {}

C4_TransportClassSymmetric ==
    last.op = "calculate_transport_class" =>
        last.result = calculate_transport_class(last.target, last.source)

C4_Witness_ReversedPair ==
    /\ last.op = "calculate_transport_class"
    /\ last.source = "gleam"
    /\ last.target = "rust"

\* The characters of identifiers.
IdentChars ==
    {UpperCase[i] : i \in 1..26} \cup {LowerCase[i] : i \in 1..26}
        \cup {"0", "1", "2", "3", "4", "5", "6", "7", "8", "9", "_"}

\* pat occurs in s right after its first i characters.
StartsAt(s, i, pat) ==
    /\ i + Len(pat) <= Len(s)
    /\ \A j \in 1..Len(pat) : s[i + j] = pat[j]

\* s holds keyword, an identifier, then open: the head of a declaration of
\* an aggregate type.
DeclaresAggregate(s, keyword, open) ==
    \E i \in 0..Len(s), n \in 1..Len(s) :
        /\ (i = 0 \/ s[i] \notin IdentChars)
        /\ StartsAt(s, i, keyword)
        /\ i + Len(keyword) + n <= Len(s)
        /\ \A j \in 1..n : s[i + Len(keyword) + j] \in IdentChars
        /\ StartsAt(s, i + Len(keyword) + n, open)

HasReScriptRecord(s) == DeclaresAggregate(s, <<"t","y","p","e"," ">>, <<" ","=", " ", "{">>)
HasRustStruct(s) == DeclaresAggregate(s, <<"s","t","r","u","c","t"," ">>, <<" ","{">>)

\* C5: an extractor returns Ok only for a text that holds a declaration of
\* an aggregate type; any other text gets the not-found error.
C5_OkOnlyForDeclaration ==
    /\ last.op = "analyze_rescript_type" =>
           (last.result.kind = "Ok" => HasReScriptRecord(last.source))
    /\ last.op = "analyze_rust_type" =>
           (last.result.kind = "Ok" => HasRustStruct(last.source))

\* The report is on the two types extracted from the documented example.
ReportOnExample ==
    /\ last.op = "compatibility_report"
    /\ analyze_rescript_type(ExampleReScriptSource).kind = "Ok"
    /\ analyze_rust_type(ExampleRustSource).kind = "Ok"
    /\ last.a = analyze_rescript_type(ExampleReScriptSource).val
    /\ last.b = analyze_rust_type(ExampleRustSource).val

\* C6: the report on the extracted four-field user record and user struct
\* shows 100.0% in both directions, class Concorde, and four mapping lines,
\* for id, name, email, active in this order, each paired with the Rust
\* field of the same name.
C6_ExampleReport ==
    ReportOnExample =>
        /\ last.result.rescript_to_rust = 1000
        /\ last.result.rust_to_rescript = 1000
        /\ last.result.transport_class = "Concorde"
        /\ Len(last.result.type_mappings) = 4
        /\ [i \in 1..4 |-> last.result.type_mappings[i].name]
               = <<"id", "name", "email", "active">>
        /\ [i \in 1..4 |-> last.result.type_mappings[i].rescript_type]
               = <<"int", "string", "string", "bool">>
        /\ [i \in 1..4 |-> last.result.type_mappings[i].rust_type]
               = <<"i64", "string", "string", "bool">>
        /\ \A i \in 1..4 : last.b.fields[i].name = last.result.type_mappings[i].name

C6_Witness_ExampleReported ==
    /\ ReportOnExample
    /\ Len(last.a.fields) = 4
    /\ Len(last.b.fields) = 4

\* C7: the mapping has one entry per field of the first type, in its field
\* order, however many fields the second type has.
C7_MappingIsProjection ==
    last.op = "compatibility_report" =>
        /\ Len(last.result.type_mappings) = Len(last.a.fields)
        /\ \A i \in 1..Len(last.result.type_mappings) :
               last.result.type_mappings[i].name = last.a.fields[i].name

\* A Rust field type with a Result in it.
RECURSIVE ContainsResult(_)
ContainsResult(field_type) ==
    CASE field_type.k = "Result" -> TRUE
      [] field_type.k \in {"Vec", "Option"} -> ContainsResult(field_type.inner)
      [] OTHER -> FALSE

\* The ecosystems with a two-sided result constructor: result<'a, 'b>,
\* Result<T, E>, Result(a, e).
EitherTargets == {"rescript", "rust", "gleam"}

\* C8: rendering a type that holds a Result for a target without a result
\* constructor fails instead of returning a type expression.
C8_ResultWithoutEquivalentFails ==
    (last.op = "rust_map_to_target" /\ ContainsResult(last.field_type)
        /\ last.target \notin EitherTargets)
    => last.result.kind = "Err"

\* The ecosystem tags the code names.
KnownEcosystems == {"rescript", "rust", "julia", "gleam"}

\* C9: for a target that is no supported ecosystem, neither the score nor
\* the mapping returns an ordinary value: the call fails.
C9_UnsupportedTargetFails ==
    ((IsScoreCall \/ IsMapCall) /\ last.target \notin KnownEcosystems)
    => last.result.kind = "Err"

\* The scalar tables of the claim's examples.
ScalarName(op, target, k) ==
    CASE op = "rescript_map_to_target" /\ target = "rust" ->
           (CASE k = "Int" -> "i64" [] k = "String" -> "String"
              [] k = "Bool" -> "bool" [] k = "Float" -> "f64")
      [] op = "rescript_map_to_target" /\ target = "julia" ->
           (CASE k = "Int" -> "Int64" [] k = "String" -> "String"
              [] k = "Bool" -> "Bool" [] k = "Float" -> "Float64")
      [] op = "rescript_map_to_target" /\ target = "gleam" ->
           (CASE k = "Int" -> "Int" [] k = "String" -> "String"
              [] k = "Bool" -> "Bool" [] k = "Float" -> "Float")
      [] op = "rust_map_to_target" /\ target = "rescript" ->
           (CASE k \in {"I64", "I32", "U64", "U32"} -> "int" [] k = "String" -> "string"
              [] k = "Bool" -> "bool" [] k \in {"F64", "F32"} -> "float")
      [] op = "rust_map_to_target" /\ target = "julia" ->
           (CASE k = "I64" -> "Int64" [] k = "I32" -> "Int32" [] k = "U64" -> "UInt64"
              [] k = "U32" -> "UInt32" [] k = "String" -> "String" [] k = "Bool" -> "Bool"
              [] k = "F64" -> "Float64" [] k = "F32" -> "Float32")
      [] op = "rust_map_to_target" /\ target = "gleam" ->
           (CASE k \in {"I64", "I32", "U64", "U32"} -> "Int" [] k = "String" -> "String"
              [] k = "Bool" -> "Bool" [] k \in {"F64", "F32"} -> "Float")

\* The constructor syntax of a target: what precedes, separates and follows
\* the inner renderings.
ConstructorSyntax(target, k) ==
    CASE target = "rust" /\ k = "Array" -> <<"Vec<", "", ">">>
      [] target = "rust" /\ k = "Option" -> <<"Option<", "", ">">>
      [] target = "rescript" /\ k = "Vec" -> <<"array<", "", ">">>
      [] target = "rescript" /\ k = "Option" -> <<"option<", "", ">">>
      [] target = "rescript" /\ k = "Result" -> <<"result<", ", ", ">">>
      [] target = "julia" /\ k \in {"Array", "Vec"} -> <<"Vector{", "", "}">>
      [] target = "julia" /\ k = "Option" -> <<"Union{Nothing, ", "", "}">>
      [] target = "julia" /\ k = "Result" -> <<"Union{Ok{", "}, Err{", "}}">>
      [] target = "gleam" /\ k \in {"Array", "Vec"} -> <<"List(", "", ")">>
      [] target = "gleam" /\ k = "Option" -> <<"Option(", "", ")">>
      [] target = "gleam" /\ k = "Result" -> <<"Result(", ", ", ")">>

\* The mapper a call used, on another field type for the same target.
RenderAgain(op, field_type, target) ==
    IF op = "rescript_map_to_target"
    THEN rescript_map_to_target(field_type, target)
    ELSE rust_map_to_target(field_type, target)

\* C10: for a supported target a scalar renders as the target's scalar name,
\* and a sequence, optional or result renders as the target's constructor
\* syntax around the rendering of its inner types for the same target.
C10_TableDrivenRendering ==
    (IsMapCall /\ last.target \in SupportedTargets(last.op)) =>
        LET ft == last.field_type
            syn == ConstructorSyntax(last.target, ft.k)
        IN  CASE ft.k \in ReScriptScalars \cup RustScalars ->
                   last.result.val = ScalarName(last.op, last.target, ft.k)
              [] ft.k \in {"Array", "Vec", "Option"} ->
                   last.result.val =
                       syn[1] \o RenderAgain(last.op, ft.inner, last.target) \o syn[3]
              [] ft.k = "Result" ->
                   last.result.val =
                       syn[1] \o RenderAgain(last.op, ft.ok, last.target) \o syn[2]
                           \o RenderAgain(last.op, ft.err, last.target) \o syn[3]
              [] OTHER -> TRUE

C10_Witness_ResultRenderedForJulia ==
    /\ last.op = "rust_map_to_target"
    /\ last.target = "julia"
    /\ last.field_type = [k |-> "Result", ok |-> [k |-> "I64"], err |-> [k |-> "String"]]
    /\ last.result.val = "Union{Ok{Int64}, Err{String}}"

\* The score the analyzer of source ecosystem s returns for definition d.
AnalyzerScore(s, d, t) ==
    IF s = "rescript" THEN rescript_compatibility_score(d, t)
    ELSE rust_compatibility_score(d, t)

\* The type definitions of the model that the analyzer of s scores.
DefinitionsOf(s) ==
    IF s = "rescript" THEN ReScriptTypes \cup {UserReScriptType}
    ELSE RustTypes \cup {UserRustType}

\* C11: for a source ecosystem with an analyzer (rescript, rust) and any
\* target tag, the class of the pair is Concorde exactly when the analyzer
\* scores every definition 1.0 for the target and Wheelbarrow exactly when
\* it scores every definition 0.0; no other class and no other score is
\* produced, and a language paired with itself gets Wheelbarrow and 0.0.
C11_TableAgreesWithScores ==
    /\ last.op = "calculate_transport_class" =>
           /\ last.result \in {"Concorde", "Wheelbarrow"}
           /\ last.source \in {"rescript", "rust"} =>
                  /\ last.result = "Concorde" <=>
                         \A d \in DefinitionsOf(last.source) :
                             AnalyzerScore(last.source, d, last.target) = ONE
                  /\ last.result = "Wheelbarrow" <=>
                         \A d \in DefinitionsOf(last.source) :
                             AnalyzerScore(last.source, d, last.target) = 0
                  /\ last.source = last.target => last.result = "Wheelbarrow"
    /\ IsScoreCall =>
           LET s == IF last.op = "rescript_compatibility_score"
                    THEN "rescript" ELSE "rust"
           IN  /\ last.result.val \in {0, ONE}
               /\ last.result.val = ONE <=>
                      calculate_transport_class(s, last.target) = "Concorde"
               /\ last.result.val = 0 <=>
                      calculate_transport_class(s, last.target) = "Wheelbarrow"
               /\ s = last.target => last.result.val = 0

C11_Witness_SameEcosystemPair ==
    /\ last.op = "calculate_transport_class"
    /\ last.source = "rust"
    /\ last.target = "rust"
    /\ last.result = "Wheelbarrow"
    /\ \A d \in DefinitionsOf("rust") : AnalyzerScore("rust", d, "rust") = 0

====
